---- MODULE Spec2Model ----
(***************************************************************************)
(* A model of three parts of textual:                                      *)
(*   - EditHistory   (src/textual/document/_history.py)                    *)
(*   - dispatch_key  (src/textual/_dispatch_key.py)                        *)
(*   - OptionList    (src/textual/widgets/_option_list2.py)                *)
(* Each part has its own specification (SpecHistory, SpecDispatch,         *)
(* SpecOptionList); the variables of the other parts stay at their initial *)
(* values.                                                                 *)
(***************************************************************************)
EXTENDS Integers, Sequences, FiniteSets, TLC

None == "None"

(***************************************************************************)
(* Generic helpers for Python lists.                                       *)
(***************************************************************************)
Last(s) == s[Len(s)]

Front(s) == SubSeq(s, 1, Len(s) - 1)

\* Python: x in seq
Contains(s, x) == \E i \in 1..Len(s) : s[i] = x

(***************************************************************************)
(*                     EditHistory (_history.py)                           *)
(***************************************************************************)
\* --- state of EditHistory
VARIABLES
    undo_stack,           \* EditHistory._undo_stack : list of batches, oldest first
    redo_stack,           \* EditHistory._redo_stack
    last_edit_time,       \* EditHistory._last_edit_time
    character_count,      \* EditHistory._character_count
    force_end_batch_flag, \* EditHistory._force_end_batch
    previously_replaced,  \* EditHistory._previously_replaced
    monotonic,            \* the value time.monotonic() returns now
    last_call             \* the most recent EditHistory call: its name and what it
                          \* returned or raised

histVars == <<undo_stack, redo_stack, last_edit_time, character_count,
              force_end_batch_flag, previously_replaced, monotonic, last_call>>

\* --- state of a dispatch_key call
VARIABLES
    node,            \* the target node: its key_<alias> and _key_<alias> attributes
    event,           \* the Key event: name and name_aliases
    is_active,       \* screen.is_active, for screen = node.screen
    d_pc,            \* where dispatch_key is: "start", "loop", "await", "returned", "raised"
    alias_index,     \* position of the for loop in event.name_aliases (1-based)
    handled,         \* local variable handled
    invoked_method,  \* local variable invoked_method
    invocations,     \* the handlers invoke() has been called with, in order
    handler_result,  \* what the awaited handler returned (NoValue before it returns)
    d_result         \* how dispatch_key ended: its return value or the exception

dispVars == <<node, event, is_active, d_pc, alias_index, handled, invoked_method,
              invocations, handler_result, d_result>>

\* --- state of an OptionList
VARIABLES
    options,          \* OptionList._options: the Option objects, in order, each
                      \* with its fields _id, _disabled, _divider, the height of
                      \* its visual and the name (key) that identifies the object
    id_to_option,     \* OptionList._id_to_option: id -> Option (its key)
    option_to_index,  \* OptionList._option_to_index: Option (its key) -> index
    highlighted,      \* the reactive OptionList.highlighted
    line_cache,       \* OptionList._line_cache: lines, heights, index_to_line
    render_cache,     \* OptionList._option_render_cache: (Option, style) -> strips
    is_mounted,       \* OptionList.is_mounted
    virtual_height,   \* OptionList.virtual_size.height
    posted,           \* the messages the most recent call posted
    raised            \* the exception the most recent call raised, or None

optVars == <<options, id_to_option, option_to_index, highlighted, line_cache,
             render_cache, is_mounted, virtual_height, posted, raised>>

\* --- state of the binding tables
VARIABLES
    tables,           \* the Bindings objects that exist: of each its self.keys,
                      \* a dict in insertion order (a sequence of Bindings)
    bindings_arg,     \* the argument of the most recent Bindings(...) call
    b_result          \* what the most recent call did: its name, the exception
                      \* it raised or None, and what it returned

bindVars == <<tables, bindings_arg, b_result>>

\* An action of one part leaves the other parts alone.
notHistVars == <<dispVars, optVars, bindVars>>

notDispVars == <<histVars, optVars, bindVars>>

notOptVars == <<histVars, dispVars, bindVars>>

notBindVars == <<histVars, dispVars, optVars>>

vars == <<histVars, dispVars, optVars, bindVars>>

\* Bounds of the history model.
MaxEdits == 4

MaxTime == 2

\* Constructor arguments of the EditHistory under test.
checkpoint_timer == 1

checkpoint_max_characters == 3

\* An Edit: its inserted text, and its _edit_result (None until Edit.do ran).
\* Texts are sequences of characters.
NoResult == [is_none |-> TRUE]

MkEdit(text, result) == [text |-> text, edit_result |-> result]

EditResult(replaced) == [replaced_text |-> replaced]

InsertChar == MkEdit(<<"x">>, EditResult(<<>>))

InsertNewline == MkEdit(<<"\n">>, EditResult(<<>>))

ReplaceChar == MkEdit(<<"x">>, EditResult(<<"y">>))

NotExecuted == MkEdit(<<"x">>, NoResult)

ExecutedEdits == {InsertChar, InsertNewline, ReplaceChar}

Edits == ExecutedEdits \cup {NotExecuted}

\* EditHistory._count_edit_characters
count_edit_characters(edit) ==
    LET inserted_characters == Len(edit.text)
        replaced_characters == Len(edit.edit_result.replaced_text)
    IN  replaced_characters + inserted_characters

\* bool(edit_result.replaced_text)
is_replacement(edit) == edit.edit_result.replaced_text # <<>>

\* The condition of the `if` in record_edit without its kind test (an altered
\* record_edit, for C1).
NewBatchBuggyNoKind(edit, current_time) ==
    \/ undo_stack = <<>>
    \/ force_end_batch_flag
    \/ current_time - last_edit_time > checkpoint_timer
    \/ character_count + count_edit_characters(edit) > checkpoint_max_characters
    \/ Contains(edit.text, "\n")

\* The condition of the `if` in record_edit: start a new batch?
NewBatch(edit, current_time) ==
    \/ undo_stack = <<>>
    \/ force_end_batch_flag
    \/ is_replacement(edit) # previously_replaced
    \/ current_time - last_edit_time > checkpoint_timer
    \/ character_count + count_edit_characters(edit) > checkpoint_max_characters
    \/ Contains(edit.text, "\n")

\* The record of a call: op is the method, kind what came back ("None", "batch"
\* or the exception's name), batch the batch returned, after_redo whether the
\* call before it was a pop_redo that returned a batch.
Call(op, kind, batch) ==
    [op |-> op, kind |-> kind, batch |-> batch, after_redo |->
        last_call.op = "pop_redo" /\ last_call.kind = "batch"]

TotalEdits(stack) ==
    LET RECURSIVE Sum(_)
        Sum(i) == IF i = 0 THEN 0 ELSE Len(stack[i]) + Sum(i - 1)
    IN  Sum(Len(stack))

HistInit ==
    /\ undo_stack = <<>>
    /\ redo_stack = <<>>
    /\ monotonic = 0
    /\ last_edit_time = monotonic
    /\ character_count = 0
    /\ force_end_batch_flag = FALSE
    /\ previously_replaced = FALSE
    /\ last_call = [op |-> "init", kind |-> None, batch |-> <<>>, after_redo |-> FALSE]

\* time passes between calls
Tick ==
    /\ monotonic < MaxTime
    /\ monotonic' = monotonic + 1
    /\ UNCHANGED <<undo_stack, redo_stack, last_edit_time, character_count,
                   force_end_batch_flag, previously_replaced, last_call>>
    /\ UNCHANGED notHistVars

\* a record_edit that clears the redo stack before it looks at the edit
\* (altered, for C23)
record_edit_raises_after_clear(edit) ==
    /\ edit.edit_result = NoResult
    /\ redo_stack' = <<>>
    /\ last_call' = Call("record_edit", "HistoryException", <<>>)
    /\ UNCHANGED <<undo_stack, last_edit_time, character_count,
                   force_end_batch_flag, previously_replaced, monotonic>>
    /\ UNCHANGED notHistVars

\* record_edit on an edit whose _edit_result is None
record_edit_raises(edit) ==
    /\ edit.edit_result = NoResult
    /\ last_call' = Call("record_edit", "HistoryException", <<>>)
    /\ UNCHANGED <<undo_stack, redo_stack, last_edit_time, character_count,
                   force_end_batch_flag, previously_replaced, monotonic>>
    /\ UNCHANGED notHistVars

\* a record_edit that forgets to clear the redo stack (altered, for C4)
RedoAfterRecordKept(stack) == stack

\* the redo stack after record_edit: self._redo_stack.clear()
RedoAfterRecord(stack) == <<>>

record_edit_ok(edit) ==
    /\ edit.edit_result # NoResult
    /\ TotalEdits(undo_stack) < MaxEdits
    /\ LET current_time == monotonic
           edit_characters == count_edit_characters(edit)
       IN  /\ IF NewBatch(edit, current_time)
              THEN /\ undo_stack' = Append(undo_stack, <<edit>>)
                   /\ character_count' = edit_characters
                   /\ last_edit_time' = current_time
                   /\ force_end_batch_flag' = FALSE
              ELSE /\ undo_stack' = [undo_stack EXCEPT
                                       ![Len(undo_stack)] = Append(@, edit)]
                   /\ character_count' = character_count + edit_characters
                   /\ last_edit_time' = current_time
                   /\ UNCHANGED force_end_batch_flag
           /\ previously_replaced' = is_replacement(edit)
           /\ redo_stack' = RedoAfterRecord(redo_stack)
    /\ last_call' = Call("record_edit", None, <<>>)
    /\ UNCHANGED monotonic
    /\ UNCHANGED notHistVars

record_edit(edit) == record_edit_raises(edit) \/ record_edit_ok(edit)

\* a pop_undo that drops the batch (altered, for C5)
RedoAfterUndoDropped(batch) == redo_stack

\* a pop_undo that puts the batch under the redo stack (altered, for C35)
RedoAfterUndoUnderneath(batch) == <<batch>> \o redo_stack

\* the redo stack after pop_undo moved `batch` off the undo stack
RedoAfterUndo(batch) == Append(redo_stack, batch)

pop_undo ==
    /\ IF undo_stack # <<>>
       THEN LET batch == Last(undo_stack)
            IN  /\ undo_stack' = Front(undo_stack)
                /\ redo_stack' = RedoAfterUndo(batch)
                /\ last_call' = Call("pop_undo", "batch", batch)
       ELSE /\ last_call' = Call("pop_undo", None, <<>>)
            /\ UNCHANGED <<undo_stack, redo_stack>>
    /\ UNCHANGED <<last_edit_time, character_count, force_end_batch_flag,
                   previously_replaced, monotonic>>
    /\ UNCHANGED notHistVars

\* a pop_redo that does not call force_end_batch (altered, for C3)
ForceAfterRedoForgotten == force_end_batch_flag

\* the force flag after pop_redo moved a batch back: self.force_end_batch()
ForceAfterRedo == TRUE

pop_redo ==
    /\ IF redo_stack # <<>>
       THEN LET batch == Last(redo_stack)
            IN  /\ redo_stack' = Front(redo_stack)
                /\ undo_stack' = Append(undo_stack, batch)
                /\ force_end_batch_flag' = ForceAfterRedo
                /\ last_call' = Call("pop_redo", "batch", batch)
       ELSE /\ last_call' = Call("pop_redo", None, <<>>)
            /\ UNCHANGED <<undo_stack, redo_stack, force_end_batch_flag>>
    /\ UNCHANGED <<last_edit_time, character_count, previously_replaced, monotonic>>
    /\ UNCHANGED notHistVars

\* reset leaves _character_count alone
reset ==
    /\ undo_stack' = <<>>
    /\ redo_stack' = <<>>
    /\ last_edit_time' = monotonic
    /\ force_end_batch_flag' = FALSE
    /\ previously_replaced' = FALSE
    /\ last_call' = Call("reset", None, <<>>)
    /\ UNCHANGED <<character_count, monotonic>>
    /\ UNCHANGED notHistVars

force_end_batch ==
    /\ force_end_batch_flag' = TRUE
    /\ last_call' = Call("force_end_batch", None, <<>>)
    /\ UNCHANGED <<undo_stack, redo_stack, last_edit_time, character_count,
                   previously_replaced, monotonic>>
    /\ UNCHANGED notHistVars

HistNext ==
    \/ Tick
    \/ \E edit \in Edits : record_edit_raises(edit)
    \/ \E edit \in Edits : record_edit_ok(edit)
    \/ pop_undo
    \/ pop_redo
    \/ reset
    \/ force_end_batch

(***************************************************************************)
(*                     dispatch_key (_dispatch_key.py)                     *)
(***************************************************************************)
\* Bound of the dispatch model: the longest alias list.
MaxAliases == 3

\* Identifiers of key aliases (event.name_aliases holds identifiers).
AliasNames == {"ctrl_i", "tab", "enter"}

\* Handler functions a node class may define, named by their __name__.
Handlers == {"handler_a", "handler_b"}

\* What a handler can return: None, False, True or another value.
HandlerValues == {"None", "False", "True", "0"}

NoValue == "NoValue"

\* Lists of distinct alias identifiers of length at most n.
AliasLists(n) ==
    LET Lists == UNION {[1..k -> AliasNames] : k \in 0..n}
    IN  {l \in Lists : \A a, b \in 1..Len(l) : a # b => l[a] # l[b]}

\* a lookup that tries the private name first (altered, for C25)
get_key_handler_private_first(pump, key) ==
    IF pump.private[key] # None THEN pump.private[key] ELSE pump.public[key]

\* getattr(pump, f"key_{key}", None) or getattr(pump, f"_key_{key}", None)
get_key_handler(pump, key) ==
    IF pump.public[key] # None THEN pump.public[key] ELSE pump.private[key]

\* a loop that never looks for a second handler (altered, for C6)
duplicate_check_skipped(method) == FALSE

\* `if invoked_method:` with key_method found: a second handler for this key press
duplicate_check(method) == method # None

\* a loop that ignores the screen (altered, for C9)
screen_check_skipped(active) == FALSE

\* `if not screen.is_active: break`
screen_check(active) == ~active

Returned(value) ==
    [kind |-> "return", value |-> value, first_handler |-> None, second_handler |-> None]

\* _raise_duplicate_key_handlers_error
raise_duplicate_key_handlers_error(first_handler, second_handler) ==
    [kind |-> "DuplicateKeyHandlers", value |-> FALSE,
     first_handler |-> first_handler, second_handler |-> second_handler]

\* an exception raised by the awaited handler leaves dispatch_key
HandlerException ==
    [kind |-> "HandlerException", value |-> FALSE,
     first_handler |-> None, second_handler |-> None]

NotEnded ==
    [kind |-> "running", value |-> FALSE, first_handler |-> None, second_handler |-> None]

\* the locals and position of a dispatch_key call that has just been entered
DispLocals ==
    /\ d_pc = "start"
    /\ alias_index = 1
    /\ handled = FALSE
    /\ invoked_method = None
    /\ invocations = <<>>
    /\ handler_result = NoValue
    /\ d_result = NotEnded

\* dispatch_key(node, event) is called on any node, with any event
DispInit ==
    /\ node \in [public : [AliasNames -> Handlers \cup {None}],
                 private : [AliasNames -> Handlers \cup {None}]]
    /\ event \in [name : {"", "tab"}, name_aliases : AliasLists(MaxAliases)]
    /\ is_active \in BOOLEAN
    /\ DispLocals

\* no dispatch_key call at all
DispIdle ==
    /\ node = [public |-> [a \in AliasNames |-> None],
               private |-> [a \in AliasNames |-> None]]
    /\ event = [name |-> "", name_aliases |-> <<>>]
    /\ is_active = TRUE
    /\ DispLocals

\* lines 31-35: no key name, return False
dispatch_no_key_name ==
    /\ d_pc = "start"
    /\ event.name = ""
    /\ d_pc' = "returned"
    /\ d_result' = Returned(FALSE)
    /\ UNCHANGED <<node, event, is_active, alias_index, handled, invoked_method,
                   invocations, handler_result>>
    /\ UNCHANGED notDispVars

\* lines 31-48: enter the loop
dispatch_enter_loop ==
    /\ d_pc = "start"
    /\ event.name # ""
    /\ d_pc' = "loop"
    /\ UNCHANGED <<node, event, is_active, alias_index, handled, invoked_method,
                   invocations, handler_result, d_result>>
    /\ UNCHANGED notDispVars

\* line 64: the loop is exhausted, return handled
dispatch_loop_end ==
    /\ d_pc = "loop"
    /\ alias_index > Len(event.name_aliases)
    /\ d_pc' = "returned"
    /\ d_result' = Returned(handled)
    /\ UNCHANGED <<node, event, is_active, alias_index, handled, invoked_method,
                   invocations, handler_result>>
    /\ UNCHANGED notDispVars

\* lines 49-51: the alias has no handler
dispatch_no_handler ==
    /\ d_pc = "loop"
    /\ alias_index <= Len(event.name_aliases)
    /\ get_key_handler(node, event.name_aliases[alias_index]) = None
    /\ alias_index' = alias_index + 1
    /\ UNCHANGED <<node, event, is_active, d_pc, handled, invoked_method,
                   invocations, handler_result, d_result>>
    /\ UNCHANGED notDispVars

\* lines 52-55: a handler is found after one was invoked
dispatch_duplicate ==
    /\ d_pc = "loop"
    /\ alias_index <= Len(event.name_aliases)
    /\ LET key_method == get_key_handler(node, event.name_aliases[alias_index])
       IN  /\ key_method # None
           /\ duplicate_check(invoked_method)
           /\ d_pc' = "raised"
           /\ d_result' = raise_duplicate_key_handlers_error(invoked_method, key_method)
    /\ UNCHANGED <<node, event, is_active, alias_index, handled, invoked_method,
                   invocations, handler_result>>
    /\ UNCHANGED notDispVars

\* lines 59-60 and 64: a handler is found but the screen is not active: break
dispatch_screen_inactive ==
    /\ d_pc = "loop"
    /\ alias_index <= Len(event.name_aliases)
    /\ get_key_handler(node, event.name_aliases[alias_index]) # None
    /\ ~duplicate_check(invoked_method)
    /\ screen_check(is_active)
    /\ d_pc' = "returned"
    /\ d_result' = Returned(handled)
    /\ UNCHANGED <<node, event, is_active, alias_index, handled, invoked_method,
                   invocations, handler_result>>
    /\ UNCHANGED notDispVars

\* line 61: invoke(key_method, event) is called and awaited
dispatch_invoke ==
    /\ d_pc = "loop"
    /\ alias_index <= Len(event.name_aliases)
    /\ LET key_method == get_key_handler(node, event.name_aliases[alias_index])
       IN  /\ key_method # None
           /\ ~duplicate_check(invoked_method)
           /\ ~screen_check(is_active)
           /\ invocations' = Append(invocations, key_method)
           /\ handler_result' = NoValue
           /\ d_pc' = "await"
    /\ UNCHANGED <<node, event, is_active, alias_index, handled, invoked_method,
                   d_result>>
    /\ UNCHANGED notDispVars

\* while dispatch_key is suspended the screen may stop or start being active
screen_changes ==
    /\ d_pc = "await"
    /\ is_active' = ~is_active
    /\ UNCHANGED <<node, event, d_pc, alias_index, handled, invoked_method,
                   invocations, handler_result, d_result>>
    /\ UNCHANGED notDispVars

\* lines 61-62: the handler returns value
handler_returns(value) ==
    /\ d_pc = "await"
    /\ handler_result' = value
    /\ handled' = (value # "False")
    /\ invoked_method' = Last(invocations)
    /\ alias_index' = alias_index + 1
    /\ d_pc' = "loop"
    /\ UNCHANGED <<node, event, is_active, invocations, d_result>>
    /\ UNCHANGED notDispVars

\* line 61: the handler raises
handler_raises ==
    /\ d_pc = "await"
    /\ d_pc' = "raised"
    /\ d_result' = HandlerException
    /\ UNCHANGED <<node, event, is_active, alias_index, handled, invoked_method,
                   invocations, handler_result>>
    /\ UNCHANGED notDispVars

DispNext ==
    \/ dispatch_no_key_name
    \/ dispatch_enter_loop
    \/ dispatch_loop_end
    \/ dispatch_no_handler
    \/ dispatch_duplicate
    \/ dispatch_screen_inactive
    \/ dispatch_invoke
    \/ screen_changes
    \/ \E value \in HandlerValues : handler_returns(value)
    \/ handler_raises

(***************************************************************************)
(*                     OptionList (_option_list2.py)                       *)
(*                                                                         *)
(* Indices are Python's: the first option has index 0.  Option does not    *)
(* define __eq__ or __hash__, so the dicts keyed by Option compare object  *)
(* identity: every Option object has a key that names it.  The caller of   *)
(* add_options passes an Option the list already holds (the same object,   *)
(* with the flags it has now) or one it has just constructed.              *)
(***************************************************************************)
\* Bounds of the option list model.
MaxOptions == 2

MaxAdd == 2

\* The length the list reaches where options are appended one at a time.
MaxAppended == 3

\* content_region.height, the page size of page_up and page_down
PageHeight == 2

NoId == "NoId"

OptionIds == {"a", "b"}

\* Optional values: Python's None is the empty tuple, the int i is <<i>>.
NoneInt == <<>>

Some(i) == <<i>>

\* The placeholder None of add_options, and the Option objects a caller may
\* pass (Option(prompt, id); the prompt decides the height of the visual).
Separator == [separator |-> TRUE]

NewOption(key, id, height) ==
    [separator |-> FALSE, key |-> key, id |-> id, height |-> height]

\* The caller's Option objects: two with the same id, one with another id
\* (two rows high) and one without an id.
NewOptions ==
    {NewOption("A", "a", 1), NewOption("A2", "a", 1), NewOption("B", "b", 2),
     NewOption("N", NoId, 1)}

Items == NewOptions \cup {Separator}

\* The arguments of add_options: at most MaxAdd options, with or without a
\* placeholder among them.
ItemLists ==
    {items \in UNION {[1..k -> Items] : k \in 0..MaxAdd + 1} :
        Cardinality({k \in 1..Len(items) : ~items[k].separator}) <= MaxAdd}

\* Python dicts as functions.
EmptyDict == [k \in {} |-> 0]

DictSet(d, key, value) ==
    [k \in DOMAIN d \cup {key} |-> IF k = key THEN value ELSE d[k]]

DictDel(d, key) == [k \in DOMAIN d \ {key} |-> d[k]]

\* seq[i] for a Python index i >= 0
At(seq, i) == seq[i + 1]

\* Python accepts the indices -len .. len - 1; a negative one counts from the
\* end of the list.
InRange(seq, i) == -Len(seq) <= i /\ i < Len(seq)

Norm(seq, i) == IF i < 0 THEN Len(seq) + i ELSE i

\* seq[i:]
SliceFrom(seq, i) ==
    LET start == IF i < 0 THEN (IF Len(seq) + i < 0 THEN 0 ELSE Len(seq) + i) ELSE i
    IN  SubSeq(seq, start + 1, Len(seq))

\* option.<field> = value: every place of the list that holds the object sees it
SetField(opts, key, field, value) ==
    [i \in 1..Len(opts) |->
        IF opts[i].key = key THEN [opts[i] EXCEPT ![field] = value] ELSE opts[i]]

\* del seq[i]
DelAt(seq, i) == SubSeq(seq, 1, i) \o SubSeq(seq, i + 2, Len(seq))

Min(a, b) == IF a < b THEN a ELSE b

\* _LineCache()
EmptyLineCache == [lines |-> <<>>, heights |-> EmptyDict, index_to_line |-> EmptyDict]

\* The state of the widget as one record, threaded through the statements of
\* a method.
Widget ==
    [options |-> options, id_to_option |-> id_to_option,
     option_to_index |-> option_to_index, highlighted |-> highlighted,
     line_cache |-> line_cache, render_cache |-> render_cache,
     is_mounted |-> is_mounted,
     virtual_height |-> virtual_height, posted |-> <<>>, raised |-> None]

\* The method is over: its effects become the next state.
Commit(w) ==
    /\ options' = w.options
    /\ id_to_option' = w.id_to_option
    /\ option_to_index' = w.option_to_index
    /\ highlighted' = w.highlighted
    /\ line_cache' = w.line_cache
    /\ render_cache' = w.render_cache
    /\ virtual_height' = w.virtual_height
    /\ posted' = w.posted
    /\ raised' = w.raised
    /\ is_mounted' = w.is_mounted
    /\ UNCHANGED notOptVars

Raise(w, exception) == [w EXCEPT !.raised = exception]

\* OptionList.__init__ with no content
OptInit ==
    /\ options = <<>>
    /\ id_to_option = EmptyDict
    /\ option_to_index = EmptyDict
    /\ highlighted = NoneInt
    /\ line_cache = EmptyLineCache
    /\ render_cache = EmptyDict
    /\ is_mounted = FALSE
    /\ virtual_height = 0
    /\ posted = <<>>
    /\ raised = None

\* an option list nobody uses
OptIdle == OptInit

\* [(index, line_no) for line_no in range(0, line_count)]
OptionLines(index, line_count) == [n \in 1..line_count |-> <<index, n - 1>>]

\* the body of the for loop of _update_lines, for the options from index on
RECURSIVE ExtendLines(_, _, _)
ExtendLines(cache, opts, index) ==
    IF index >= Len(opts) THEN cache
    ELSE LET option == At(opts, index)
             line_count == option.height + (IF option.divider THEN 1 ELSE 0)
             extended ==
                 [lines |-> cache.lines \o OptionLines(index, line_count),
                  heights |-> DictSet(cache.heights, index, line_count),
                  index_to_line |->
                      DictSet(cache.index_to_line, index, Len(cache.lines))]
         IN  ExtendLines(extended, opts, index + 1)

\* OptionList._update_lines
update_lines(w) ==
    LET lines == w.line_cache.lines
        last_index == IF lines # <<>> THEN Last(lines)[1] ELSE 0
        cache == IF last_index < Len(w.options) - 1
                 THEN ExtendLines(w.line_cache, w.options, last_index)
                 ELSE w.line_cache
        last_divider == w.options # <<>> /\ Last(w.options).divider
    IN  [w EXCEPT !.line_cache = cache,
                  !.virtual_height =
                      Len(cache.lines) - (IF last_divider THEN 1 ELSE 0)]

\* OptionList.validate_highlighted
validate_highlighted(w, value) ==
    IF value = NoneInt \/ w.options = <<>> THEN NoneInt
    ELSE IF value[1] < 0 THEN Some(0)
    ELSE IF value[1] >= Len(w.options) THEN Some(Len(w.options) - 1)
    ELSE value

\* OptionList.OptionMessage.__init__
OptionMessage(name, option, index) ==
    [name |-> name, option |-> option.key, option_id |-> option.id,
     option_index |-> index]

Post(w, message) == [w EXCEPT !.posted = Append(@, message)]

\* OptionList.scroll_to_highlight
scroll_to_highlight(w) ==
    IF w.highlighted = NoneInt \/ ~w.is_mounted THEN w
    ELSE LET updated == update_lines(w)
         IN  IF w.highlighted[1] \notin DOMAIN updated.line_cache.index_to_line
             THEN Raise(updated, "KeyError")
             ELSE updated

\* OptionList.watch_highlighted
watch_highlighted(w, value) ==
    IF value = NoneInt THEN w
    ELSE LET option == At(w.options, value[1])
             scrolled == IF ~option.disabled THEN scroll_to_highlight(w) ELSE w
         IN  IF scrolled.raised # None THEN scrolled
             ELSE Post(scrolled, OptionMessage("OptionHighlighted", option, value[1]))

\* self.highlighted = value: the reactive validates the value, stores it when
\* it differs from the current one and then calls the watcher
set_highlighted(w, value) ==
    LET validated == validate_highlighted(w, value)
    IN  IF validated = w.highlighted THEN w
        ELSE watch_highlighted([w EXCEPT !.highlighted = validated], validated)

\* --- textual._widget_navigation (not part of the sources at hand: modelled
\* --- from its documented behaviour)
EnabledIndices(opts) == {i \in 0..Len(opts) - 1 : ~At(opts, i).disabled}

MinOf(set) == CHOOSE x \in set : \A y \in set : x <= y

MaxOf(set) == CHOOSE x \in set : \A y \in set : x >= y

\* the first enabled option, or None
find_first_enabled(opts) ==
    IF EnabledIndices(opts) = {} THEN NoneInt ELSE Some(MinOf(EnabledIndices(opts)))

\* the last enabled option, or None
find_last_enabled(opts) ==
    IF EnabledIndices(opts) = {} THEN NoneInt ELSE Some(MaxOf(EnabledIndices(opts)))

\* the next enabled option after anchor in the direction, wrapping around the
\* ends of the list; None if no option is enabled
find_next_enabled(opts, anchor, direction) ==
    IF anchor = NoneInt
    THEN IF direction = 1 THEN find_first_enabled(opts) ELSE find_last_enabled(opts)
    ELSE LET enabled == EnabledIndices(opts)
             start == anchor[1] + direction
             distance(i) == ((i - start) * direction) % Len(opts)
         IN  IF enabled = {} THEN NoneInt
             ELSE Some(CHOOSE i \in enabled :
                           \A j \in enabled : distance(i) <= distance(j))

\* the nearest enabled option from anchor (anchor included) in the direction,
\* without wrapping; None if there is none
find_next_enabled_no_wrap(opts, anchor, direction) ==
    LET ahead == {i \in EnabledIndices(opts) : (i - anchor) * direction >= 0}
    IN  IF ahead = {} THEN NoneInt
        ELSE IF direction = 1 THEN Some(MinOf(ahead)) ELSE Some(MaxOf(ahead))

\* --- the methods of OptionList
\* one iteration of the loop of add_options
add_one(w, item) ==
    IF w.raised # None THEN w
    ELSE IF item.separator
    THEN IF w.options # <<>>
         THEN [w EXCEPT !.options = SetField(@, Last(w.options).key, "divider", TRUE)]
         ELSE w
    ELSE LET held == {i \in 1..Len(w.options) : w.options[i].key = item.key}
             option == IF held # {} THEN w.options[CHOOSE i \in held : TRUE]
                       ELSE [key |-> item.key, id |-> item.id,
                             disabled |-> FALSE, divider |-> FALSE,
                             height |-> item.height]
             added == [w EXCEPT
                         !.option_to_index = DictSet(@, option.key, Len(w.options)),
                         !.options = Append(@, option)]
         IN  IF option.id = NoId THEN added
             ELSE IF option.id \in DOMAIN w.id_to_option
             THEN Raise(added, "DuplicateID")
             ELSE [added EXCEPT !.id_to_option = DictSet(@, option.id, option.key)]

\* The object named key is one the list holds, or the name is free for an
\* object constructed just now (no dict still refers to an object of that name).
Known(w, key) ==
    \/ \E i \in 1..Len(w.options) : w.options[i].key = key
    \/ /\ key \notin DOMAIN w.option_to_index
       /\ \A id \in DOMAIN w.id_to_option : w.id_to_option[id] # key
       /\ \A cache_key \in DOMAIN w.render_cache : cache_key[1] # key

RECURSIVE add_all(_, _)
add_all(w, items) ==
    IF items = <<>> THEN w ELSE add_all(add_one(w, Head(items)), Tail(items))

NumberOfOptions(items) == Cardinality({k \in 1..Len(items) : ~items[k].separator})

\* OptionList.add_options
add_options(new_options) ==
    /\ Len(options) + NumberOfOptions(new_options) <= MaxOptions
    /\ \A k \in 1..Len(new_options) :
          ~new_options[k].separator => Known(Widget, new_options[k].key)
    /\ Commit(add_all(Widget, new_options))

\* OptionList.add_options with one option, on a list that grows to
\* MaxAppended options
append_option(option) ==
    /\ Len(options) < MaxAppended
    /\ Known(Widget, option.key)
    /\ Commit(add_all(Widget, <<option>>))

\* the body of clear_options
cleared(w) ==
    set_highlighted([w EXCEPT !.line_cache = EmptyLineCache,
                              !.render_cache = EmptyDict], NoneInt)

\* OptionList.clear_options
clear_options == Commit(cleared(Widget))

\* OptionList.get_option_index; the result is [raised, index]
get_option_index(w, option_id) ==
    IF option_id \notin DOMAIN w.id_to_option
    THEN [raised |-> "OptionDoesNotExist", index |-> 0]
    ELSE IF w.id_to_option[option_id] \notin DOMAIN w.option_to_index
    THEN [raised |-> "KeyError", index |-> 0]
    ELSE [raised |-> None, index |-> w.option_to_index[w.id_to_option[option_id]]]

\* the loop of remove_option over self.options[index + 1:], one option at a
\* time; the result is [raised, indices]
RECURSIVE shift_indices(_, _)
shift_indices(indices, behind) ==
    IF behind = <<>> THEN [raised |-> None, indices |-> indices]
    ELSE IF Head(behind).key \notin DOMAIN indices
    THEN [raised |-> "KeyError", indices |-> indices]
    ELSE shift_indices([indices EXCEPT ![Head(behind).key] = @ - 1], Tail(behind))

\* the body of remove_option, once the index is known
remove_at(w, option_id, index) ==
    LET shifted == shift_indices(w.option_to_index, SliceFrom(w.options, index + 1))
        moved == [w EXCEPT !.option_to_index = shifted.indices]
    IN  IF shifted.raised # None THEN Raise(moved, shifted.raised)
        ELSE IF ~InRange(w.options, index) THEN Raise(moved, "IndexError")
        ELSE LET option == At(w.options, Norm(w.options, index))
                 deleted ==
                     [moved EXCEPT
                        !.options = DelAt(@, Norm(w.options, index)),
                        !.id_to_option = DictDel(@, option_id)]
             IN  IF option.key \notin DOMAIN deleted.option_to_index
                 THEN Raise(deleted, "KeyError")
                 ELSE [deleted EXCEPT !.option_to_index = DictDel(@, option.key)]

\* OptionList.remove_option
remove_option(option_id) ==
    LET found == get_option_index(Widget, option_id)
    IN  IF found.raised # None
        THEN Commit(Raise(Widget, found.raised))
        ELSE Commit(remove_at(Widget, option_id, found.index))

\* OptionList._set_option_disabled
set_option_disabled(w, index, disabled) ==
    IF ~InRange(w.options, index) THEN Raise(w, "IndexError")
    ELSE LET option == At(w.options, Norm(w.options, index))
             flagged == [w EXCEPT
                           !.options = SetField(@, option.key, "disabled", disabled)]
         IN  IF Some(index) = flagged.highlighted
             THEN set_highlighted(flagged,
                                  find_next_enabled(flagged.options, Some(index), 1))
             ELSE flagged

\* enable_option_at_index and disable_option_at_index: an IndexError becomes
\* OptionDoesNotExist
set_option_disabled_at_index(w, index, disabled) ==
    LET done == set_option_disabled(w, index, disabled)
    IN  IF done.raised = "IndexError" THEN Raise(done, "OptionDoesNotExist") ELSE done

\* OptionList.enable_option_at_index
enable_option_at_index(index) ==
    Commit(set_option_disabled_at_index(Widget, index, FALSE))

\* OptionList.disable_option_at_index
disable_option_at_index(index) ==
    Commit(set_option_disabled_at_index(Widget, index, TRUE))

\* enable_option and disable_option
set_option_disabled_by_id(option_id, disabled) ==
    LET found == get_option_index(Widget, option_id)
    IN  IF found.raised # None
        THEN Commit(Raise(Widget, found.raised))
        ELSE Commit(set_option_disabled_at_index(Widget, found.index, disabled))

\* OptionList.enable_option
enable_option(option_id) == set_option_disabled_by_id(option_id, FALSE)

\* OptionList.disable_option
disable_option(option_id) == set_option_disabled_by_id(option_id, TRUE)

\* an assignment to the reactive: option_list.highlighted = value
assign_highlighted(value) == Commit(set_highlighted(Widget, value))

\* OptionList.action_cursor_up
action_cursor_up ==
    Commit(set_highlighted(Widget, find_next_enabled(options, highlighted, -1)))

\* OptionList.action_cursor_down
action_cursor_down ==
    Commit(set_highlighted(Widget, find_next_enabled(options, highlighted, 1)))

\* OptionList.action_first
action_first == Commit(set_highlighted(Widget, find_first_enabled(options)))

\* OptionList.action_last
action_last == Commit(set_highlighted(Widget, find_last_enabled(options)))

\* OptionList._move_page
move_page(w, direction) ==
    LET height == PageHeight
        option_index == IF w.highlighted = NoneInt THEN 0 ELSE w.highlighted[1]
        updated == update_lines(w)
        lines == updated.line_cache.lines
        index_to_line == updated.line_cache.index_to_line
    IN  IF option_index \notin DOMAIN index_to_line THEN Raise(updated, "KeyError")
        ELSE LET y == Min(index_to_line[option_index] + direction * height,
                          Len(lines) - 1)
             IN  IF y < 0 /\ -y > Len(lines) THEN Raise(updated, "IndexError")
                 ELSE LET line == IF y >= 0 THEN At(lines, y) ELSE At(lines, Len(lines) + y)
                          target_option ==
                              find_next_enabled_no_wrap(updated.options, line[1], direction)
                      IN  IF target_option # NoneInt
                          THEN set_highlighted(updated, target_option)
                          ELSE updated

\* OptionList.action_page_up
action_page_up == Commit(move_page(Widget, -1))

\* OptionList.action_page_down
action_page_down == Commit(move_page(Widget, 1))

\* OptionList.action_select
action_select ==
    IF highlighted = NoneInt THEN Commit(Widget)
    ELSE IF highlighted[1] >= Len(options) THEN Commit(Raise(Widget, "IndexError"))
    ELSE LET option == At(options, highlighted[1])
         IN  IF ~option.disabled
             THEN Commit(Post(Widget, OptionMessage("OptionSelected", option, highlighted[1])))
             ELSE Commit(Widget)

\* OptionList._on_resize and OptionList.notify_style_update: _clear_caches
clear_caches ==
    Commit([Widget EXCEPT !.render_cache = EmptyDict, !.line_cache = EmptyLineCache])

\* OptionList._get_option_render: the strips of an option in a style, each
\* with the option's index as meta data and the rule of the divider last;
\* the result is the widget with the strips cached
get_option_render(w, option, style) ==
    LET cache_key == <<option.key, style>>
    IN  IF cache_key \in DOMAIN w.render_cache THEN w
        ELSE IF option.key \notin DOMAIN w.option_to_index THEN Raise(w, "KeyError")
        ELSE LET strips == [index |-> w.option_to_index[option.key],
                            count |-> option.height + (IF option.divider THEN 1 ELSE 0)]
             IN  [w EXCEPT !.render_cache = DictSet(@, cache_key, strips)]

\* the component class render_line chooses (the mouse is not over the widget)
component_class(w, option, option_index) ==
    IF option.disabled THEN "option-list--option-disabled"
    ELSE IF w.highlighted = Some(option_index) THEN "option-list--option-highlighted"
    ELSE "option-list--option"

\* the body of render_line for the row line_number
rendered_line(w, line_number) ==
    LET updated == update_lines(w)
        lines == updated.line_cache.lines
    IN  IF line_number >= Len(lines) THEN updated
        ELSE LET option_index == At(lines, line_number)[1]
                 line_offset == At(lines, line_number)[2]
             IN  IF option_index >= Len(updated.options)
                 THEN Raise(updated, "IndexError")
                 ELSE LET option == At(updated.options, option_index)
                          style == component_class(updated, option, option_index)
                          done == get_option_render(updated, option, style)
                      IN  IF done.raised # None THEN done
                          ELSE IF line_offset >= done.render_cache[<<option.key, style>>].count
                          THEN Raise(done, "IndexError")
                          ELSE done

\* OptionList.render_line, with the widget scrolled to the top
render_line(y) == Commit(rendered_line(Widget, y))

\* a geometry query (_lines, _heights, _index_to_line): _update_lines
query_lines == Commit(update_lines(Widget))

\* the widget is mounted
mount ==
    /\ ~is_mounted
    /\ Commit([Widget EXCEPT !.is_mounted = TRUE])

\* OptionList.on_show
on_show ==
    /\ is_mounted
    /\ Commit(scroll_to_highlight(Widget))

\* The rows render_line is asked for: those of a full list of the highest
\* options with dividers, and one below them.
Rows == 0..MaxOptions * 3

HighlightValues == {NoneInt} \cup {Some(i) : i \in -1..MaxOptions}

OptNext ==
    \/ \E new_options \in ItemLists : add_options(new_options)
    \/ \E option_id \in OptionIds : remove_option(option_id)
    \/ clear_options
    \/ \E index \in 0..MaxOptions : enable_option_at_index(index)
    \/ \E index \in 0..MaxOptions : disable_option_at_index(index)
    \/ \E option_id \in OptionIds : enable_option(option_id)
    \/ \E option_id \in OptionIds : disable_option(option_id)
    \/ \E value \in HighlightValues : assign_highlighted(value)
    \/ action_cursor_up
    \/ action_cursor_down
    \/ action_first
    \/ action_last
    \/ action_page_up
    \/ action_page_down
    \/ action_select
    \/ clear_caches
    \/ query_lines
    \/ mount
    \/ on_show

\* The content mutations (options added one at a time), the cache
\* invalidation and the renderer.
RenderNext ==
    \/ \E option \in NewOptions : add_options(<<option>>)
    \/ \E option_id \in OptionIds : remove_option(option_id)
    \/ clear_options
    \/ clear_caches
    \/ \E y \in Rows : render_line(y)

\* Options appended one at a time to a longer list, the geometry queries and
\* the cache invalidation.
LinesNext ==
    \/ \E option \in NewOptions : append_option(option)
    \/ query_lines
    \/ clear_caches

(***************************************************************************)
(*                       Bindings (binding.py)                             *)
(*                                                                         *)
(* A str is the sequence of its characters.                                *)
(***************************************************************************)
\* Bounds of the binding model.
MaxTables == 2

MaxBindings == 2

AlnumChars == {"a", "b"}

Whitespace == {" "}

\* str.isalnum(): at least one character, and all of them alphanumeric
isalnum(str) == str # <<>> /\ \A i \in 1..Len(str) : str[i] \in AlnumChars

\* str.split(","): the pieces between the commas, empty ones included
RECURSIVE split(_)
split(str) ==
    IF \A i \in 1..Len(str) : str[i] # "," THEN <<str>>
    ELSE LET comma == CHOOSE i \in 1..Len(str) :
                          str[i] = "," /\ \A j \in 1..i - 1 : str[j] # ","
         IN  <<SubSeq(str, 1, comma - 1)>> \o split(SubSeq(str, comma + 1, Len(str)))

\* str.strip(): without the whitespace at both ends
RECURSIVE strip(_)
strip(str) ==
    IF str = <<>> THEN str
    ELSE IF Head(str) \in Whitespace THEN strip(Tail(str))
    ELSE IF Last(str) \in Whitespace THEN strip(Front(str))
    ELSE str

\* Binding(key, action, description, show, key_display, universal)
Binding(key, action, description, show, key_display, universal) ==
    [key |-> key, action |-> action, description |-> description, show |-> show,
     key_display |-> key_display, universal |-> universal]

\* An element of the argument of Bindings(...): a Binding or a tuple of strings.
BindingObject(binding) == [is_tuple |-> FALSE, fields |-> <<>>, binding |-> binding]

NoBindingObject == Binding(<<>>, "", "", TRUE, None, FALSE)

TupleObject(fields) == [is_tuple |-> TRUE, fields |-> fields, binding |-> NoBindingObject]

\* dict[key] = binding on a dict in insertion order: a key already there keeps
\* its place
DictPut(dict, binding) ==
    IF \E i \in 1..Len(dict) : dict[i].key = binding.key
    THEN [i \in 1..Len(dict) |-> IF dict[i].key = binding.key THEN binding ELSE dict[i]]
    ELSE Append(dict, binding)

\* dict.update(other)
RECURSIVE DictUpdate(_, _)
DictUpdate(dict, other) ==
    IF other = <<>> THEN dict ELSE DictUpdate(DictPut(dict, Head(other)), Tail(other))

\* the keys of a dict
DictKeys(dict) == {dict[i].key : i \in 1..Len(dict)}

\* dict[key], for a key of the dict
DictGet(dict, key) == dict[CHOOSE i \in 1..Len(dict) : dict[i].key = key]

\* a make_bindings that validates a key only when it stands alone (altered,
\* for C20)
expand_binding_list_unchecked(binding) ==
    LET binding_keys == split(binding.key)
    IN  IF Len(binding_keys) > 1
        THEN [raised |-> None,
              yielded |-> [i \in 1..Len(binding_keys) |->
                              Binding(binding_keys[i], binding.action,
                                      binding.description, binding.show,
                                      binding.key_display, binding.universal)]]
        ELSE IF ~isalnum(binding.key)
        THEN [raised |-> "BindingError", yielded |-> <<>>]
        ELSE [raised |-> None, yielded |-> <<binding>>]

\* a make_bindings that yields the input Binding once per key, without
\* giving each copy its own key (altered, for C21)
expand_binding_key_kept(binding) ==
    LET binding_keys == split(binding.key)
    IN  IF \E i \in 1..Len(binding_keys) : ~isalnum(binding_keys[i])
        THEN [raised |-> "BindingError", yielded |-> <<>>]
        ELSE [raised |-> None, yielded |-> [i \in 1..Len(binding_keys) |-> binding]]

\* the Bindings one input Binding expands to (the loop body of make_bindings
\* after the tuple conversion); the result is [raised, yielded]
expand_binding(binding) ==
    LET binding_keys == split(binding.key)
    IN  IF \E i \in 1..Len(binding_keys) : ~isalnum(binding_keys[i])
        THEN [raised |-> "BindingError", yielded |-> <<>>]
        ELSE IF Len(binding_keys) > 1
        THEN [raised |-> None,
              yielded |-> [i \in 1..Len(binding_keys) |->
                              Binding(binding_keys[i], binding.action,
                                      binding.description, binding.show,
                                      binding.key_display, binding.universal)]]
        ELSE [raised |-> None, yielded |-> <<binding>>]

\* make_bindings: the Bindings the generator yields until it raises
RECURSIVE make_bindings(_)
make_bindings(bindings) ==
    IF bindings = <<>> THEN [raised |-> None, yielded |-> <<>>]
    ELSE LET first == Head(bindings)
         IN  IF first.is_tuple /\ Len(first.fields) # 3
             THEN [raised |-> "BindingError", yielded |-> <<>>]
             ELSE LET binding ==
                          IF first.is_tuple
                          THEN Binding(first.fields[1], first.fields[2],
                                       first.fields[3], TRUE, None, FALSE)
                          ELSE first.binding
                      expanded == expand_binding(binding)
                      rest == make_bindings(Tail(bindings))
                  IN  IF expanded.raised # None THEN expanded
                      ELSE [raised |-> rest.raised,
                            yielded |-> expanded.yielded \o rest.yielded]

\* Bindings.__init__: the result is [raised, keys]
new_keys(bindings) ==
    IF bindings = <<>> THEN [raised |-> None, keys |-> <<>>]
    ELSE LET made == make_bindings(bindings)
         IN  IF made.raised # None THEN [raised |-> made.raised, keys |-> <<>>]
             ELSE [raised |-> None, keys |-> DictUpdate(<<>>, made.yielded)]

\* What a call did.
BResult(op, exception, returned) ==
    [op |-> op, raised |-> exception, returned |-> returned]

\* No Bindings object exists yet.
BindInit ==
    /\ tables = <<>>
    /\ bindings_arg = <<>>
    /\ b_result = BResult("init", None, <<>>)

\* binding tables nobody uses
BindIdle == BindInit

\* Bindings(bindings): a new table, unless the constructor raises
new_bindings(bindings) ==
    /\ Len(tables) < MaxTables
    /\ LET made == new_keys(bindings)
       IN  /\ tables' = IF made.raised = None THEN Append(tables, made.keys) ELSE tables
           /\ b_result' = BResult("Bindings", made.raised, <<>>)
    /\ bindings_arg' = bindings
    /\ UNCHANGED notBindVars

\* the loop of bind over all_keys
RECURSIVE bind_keys(_, _, _)
bind_keys(dict, all_keys, flags) ==
    IF all_keys = <<>> THEN dict
    ELSE bind_keys(DictPut(dict, Binding(Head(all_keys), flags.action,
                                         flags.description, flags.show,
                                         flags.key_display, flags.universal)),
                   Tail(all_keys), flags)

\* the body of bind: self.keys afterwards
bound(dict, keys, flags) ==
    LET pieces == split(keys)
        all_keys == [i \in 1..Len(pieces) |-> strip(pieces[i])]
    IN  bind_keys(dict, all_keys, flags)

\* Bindings.bind on the table t
bind(t, keys, flags) ==
    /\ t \in 1..Len(tables)
    /\ tables' = [tables EXCEPT ![t] = bound(@, keys, flags)]
    /\ b_result' = BResult("bind", None, <<>>)
    /\ UNCHANGED bindings_arg
    /\ UNCHANGED notBindVars

\* the loop of merge: keys.update(_bindings.keys) for every table
RECURSIVE merge_keys(_, _)
merge_keys(keys, bindings) ==
    IF bindings = <<>> THEN keys
    ELSE merge_keys(DictUpdate(keys, Head(bindings)), Tail(bindings))

\* the body of merge: Bindings(keys.values()); the result is [raised, keys]
merged(bindings) ==
    LET keys == merge_keys(<<>>, bindings)
    IN  new_keys([i \in 1..Len(keys) |-> BindingObject(keys[i])])

\* Bindings.merge over the tables numbered by which, in that order; the new
\* table is returned to the caller
merge(which) ==
    /\ \A i \in 1..Len(which) : which[i] \in 1..Len(tables)
    /\ LET made == merged([i \in 1..Len(which) |-> tables[which[i]]])
       IN  b_result' = BResult("merge", made.raised, made.keys)
    /\ UNCHANGED <<tables, bindings_arg>>
    /\ UNCHANGED notBindVars

\* Bindings.get_key on the table t
get_key(t, key) ==
    /\ t \in 1..Len(tables)
    /\ b_result' = IF key \in DictKeys(tables[t])
                   THEN BResult("get_key", None, <<DictGet(tables[t], key)>>)
                   ELSE BResult("get_key", "NoBinding", <<>>)
    /\ UNCHANGED <<tables, bindings_arg>>
    /\ UNCHANGED notBindVars

\* The str values used as keys: single keys, lists of keys, keys with a
\* space, a key that is not alphanumeric, and the empty str.
KeyStrings ==
    {<<"a">>, <<"b">>, <<"a", ",", "b">>, <<"b", ",", "a">>, <<" ", "a">>,
     <<"a", ",", " ", "b">>, <<"!">>, <<"a", ",", "!">>, <<>>}

\* The keys bind is called with.
BindKeyStrings == {<<"a">>, <<"a", ",", "b">>, <<"a", ",", " ", "b">>, <<"!">>}

\* The keys looked up.
SingleKeys == {<<"a">>, <<"b">>, <<"!">>, <<>>}

\* Two sets of action, description and flags.
Flags ==
    {[action |-> "x", description |-> "", show |-> TRUE, key_display |-> None,
      universal |-> FALSE],
     [action |-> "y", description |-> "d", show |-> FALSE, key_display |-> "K",
      universal |-> TRUE]}

BindingObjects ==
    {BindingObject(Binding(key, flags.action, flags.description, flags.show,
                           flags.key_display, flags.universal)) :
        key \in KeyStrings, flags \in Flags}

\* Tuples of three strings, of two and of four.
TupleObjects ==
    {TupleObject(<<key, "x", "d">>) : key \in {<<"a">>, <<"a", ",", "b">>, <<"!">>}}
        \cup {TupleObject(<<<<"a">>, "x">>), TupleObject(<<<<"a">>, "x", "d", "e">>)}

\* The arguments of Bindings(...): up to MaxBindings Bindings and tuples.
ConstructorArgs ==
    UNION {[1..n -> BindingObjects \cup TupleObjects] : n \in 0..MaxBindings}

\* Tables start empty or with one binding, and grow by bind.
SmallConstructorArgs ==
    {<<>>} \cup {<<TupleObject(<<key, "x", "d">>)>> : key \in {<<"b">>, <<"!">>}}

\* The ordered sequences of tables handed to merge.
MergeArgs == UNION {[1..n -> 1..MaxTables] : n \in 0..MaxTables}

BindNext ==
    \/ \E bindings \in SmallConstructorArgs : new_bindings(bindings)
    \/ \E t \in 1..MaxTables, keys \in BindKeyStrings, flags \in Flags :
          bind(t, keys, flags)
    \/ \E which \in MergeArgs : merge(which)
    \/ \E t \in 1..MaxTables, key \in SingleKeys : get_key(t, key)

\* One table is constructed, from any argument, and looked into.
ConstructNext ==
    \/ /\ b_result.op = "init"
       /\ \E bindings \in ConstructorArgs : new_bindings(bindings)
    \/ \E key \in SingleKeys : get_key(1, key)

(***************************************************************************)
(*                          Specifications                                 *)
(***************************************************************************)
\* a history nobody uses
HistIdle == HistInit

InitHistory == HistInit /\ DispIdle /\ OptIdle /\ BindIdle

SpecHistory == InitHistory /\ [][HistNext]_vars

InitDispatch == DispInit /\ HistIdle /\ OptIdle /\ BindIdle

SpecDispatch == InitDispatch /\ [][DispNext]_vars

InitOptionList == OptInit /\ HistIdle /\ DispIdle /\ BindIdle

SpecOptionList == InitOptionList /\ [][OptNext]_vars

\* The option list under mutation and rendering only.
SpecOptionRender == InitOptionList /\ [][RenderNext]_vars

\* The line cache of a list that grows by appended options.
SpecOptionLines == InitOptionList /\ [][LinesNext]_vars

InitBindings == BindInit /\ HistIdle /\ DispIdle /\ OptIdle

SpecBindings == InitBindings /\ [][BindNext]_vars

\* Bindings.__init__ on every argument, and get_key on its table.
SpecConstruct == InitBindings /\ [][ConstructNext]_vars

(***************************************************************************)
(*                     Properties of EditHistory                           *)
(***************************************************************************)
\* A batch holds only replacements or only pure insertions.
SameKind(batch) ==
    \A i, j \in 1..Len(batch) : is_replacement(batch[i]) = is_replacement(batch[j])

\* The six conditions under which an edit starts a new batch, as the
\* specification lists them.
StartsNewBatch(edit) ==
    \/ Len(undo_stack) = 0
    \/ force_end_batch_flag = TRUE
    \/ (Len(edit.edit_result.replaced_text) > 0) # previously_replaced
    \/ monotonic - last_edit_time > checkpoint_timer
    \/ character_count + Len(edit.text) + Len(edit.edit_result.replaced_text)
          > checkpoint_max_characters
    \/ \E i \in 1..Len(edit.text) : edit.text[i] = "\n"

\* C1: record_edit(edit) on an executed edit pushes the single-edit batch
\* <<edit>>, sets the character counter to the edit's characters and clears
\* the force flag if and only if one of the six conditions holds; otherwise
\* it appends the edit at the end of the top batch, adds its characters to
\* the counter and leaves the number of batches (and the batches below the
\* top) unchanged.
C1_RecordEditBatching ==
    [][\A edit \in ExecutedEdits : record_edit_ok(edit) =>
          LET chars == Len(edit.text) + Len(edit.edit_result.replaced_text)
              pushed == undo_stack' = Append(undo_stack, <<edit>>)
          IN  /\ pushed <=> StartsNewBatch(edit)
              /\ pushed => /\ character_count' = chars
                           /\ force_end_batch_flag' = FALSE
              /\ ~pushed => /\ Len(undo_stack') = Len(undo_stack)
                            /\ Front(undo_stack') = Front(undo_stack)
                            /\ Last(undo_stack') = Append(Last(undo_stack), edit)
                            /\ character_count' = character_count + chars
                            /\ force_end_batch_flag' = force_end_batch_flag
      ]_vars

\* C1 witness: three edits recorded one after the other were coalesced into one
\* batch, and pop_undo has returned that batch whole, in recording order.
C1_Witness ==
    /\ last_call.op = "pop_undo"
    /\ last_call.kind = "batch"
    /\ last_call.batch = <<InsertNewline, InsertChar, InsertChar>>
    /\ Last(redo_stack) = last_call.batch

\* C2: no batch on the undo stack or the redo stack holds both a replacement
\* and a pure insertion.
C2_NoMixedBatch ==
    /\ \A i \in 1..Len(undo_stack) : SameKind(undo_stack[i])
    /\ \A i \in 1..Len(redo_stack) : SameKind(redo_stack[i])

C4_RecordClearsRedo ==
    [][\A edit \in ExecutedEdits : record_edit_ok(edit) =>
          /\ redo_stack' = <<>>
          /\ last_edit_time' = monotonic
          /\ previously_replaced' = (Len(edit.edit_result.replaced_text) > 0)
      ]_vars

\* C4 witness: a replacement has been recorded, some time after the start and
\* right after a redo; the redo stack is empty, the last-edit time is the
\* current time and the flag says replacement.
C4_Witness ==
    /\ last_call.op = "record_edit"
    /\ last_call.kind = None
    /\ last_call.after_redo
    /\ previously_replaced
    /\ last_edit_time = monotonic
    /\ monotonic > 0
    /\ redo_stack = <<>>

\* C5: pop_undo with a non-empty undo stack removes exactly the top batch,
\* pushes it on the redo stack and returns it; with an empty undo stack it
\* returns None and changes nothing.  pop_redo mirrors it on the redo stack
\* and with an empty redo stack returns None and changes nothing, the force
\* flag included.
C5_PopFrame ==
    [][/\ pop_undo =>
            IF Len(undo_stack) > 0
            THEN /\ undo_stack' = SubSeq(undo_stack, 1, Len(undo_stack) - 1)
                 /\ redo_stack' = redo_stack \o <<undo_stack[Len(undo_stack)]>>
                 /\ last_call'.kind = "batch"
                 /\ last_call'.batch = undo_stack[Len(undo_stack)]
            ELSE /\ last_call'.kind = None
                 /\ UNCHANGED <<undo_stack, redo_stack, last_edit_time,
                                character_count, force_end_batch_flag,
                                previously_replaced>>
       /\ pop_redo =>
            IF Len(redo_stack) > 0
            THEN /\ redo_stack' = SubSeq(redo_stack, 1, Len(redo_stack) - 1)
                 /\ undo_stack' = undo_stack \o <<redo_stack[Len(redo_stack)]>>
                 /\ last_call'.kind = "batch"
                 /\ last_call'.batch = redo_stack[Len(redo_stack)]
            ELSE /\ last_call'.kind = None
                 /\ UNCHANGED <<undo_stack, redo_stack, last_edit_time,
                                character_count, force_end_batch_flag,
                                previously_replaced>>
      ]_vars

\* C5 witness: pop_undo has returned the top batch, which is now on top of a
\* redo stack that already held another batch, with a batch left below it on
\* the undo stack.
C5_Witness ==
    /\ last_call.op = "pop_undo"
    /\ last_call.kind = "batch"
    /\ Len(undo_stack) >= 1
    /\ Len(redo_stack) >= 2
    /\ Last(redo_stack) = last_call.batch
    /\ redo_stack[1] # last_call.batch

(***************************************************************************)
(*                     Properties of dispatch_key                          *)
(***************************************************************************)
\* The handler the node has for an alias: the public key_<alias> if there is
\* one, else the private _key_<alias>, else None.
ResolvedHandler(alias) ==
    IF node.public[alias] # None THEN node.public[alias] ELSE node.private[alias]

\* The positions of event.name_aliases whose alias has a handler on the node.
HandledPositions ==
    {k \in 1..Len(event.name_aliases) : ResolvedHandler(event.name_aliases[k]) # None}

\* The handler of the n-th alias (in list order) that has one.
NthHandler(n) ==
    LET k == CHOOSE k \in HandledPositions :
                 Cardinality({j \in HandledPositions : j <= k}) = n
    IN  ResolvedHandler(event.name_aliases[k])

\* Two different aliases of the event have handlers, and the handlers differ.
TwoDifferentHandlers ==
    \E k, l \in HandledPositions :
        /\ k # l
        /\ ResolvedHandler(event.name_aliases[k]) # ResolvedHandler(event.name_aliases[l])

DispatchEnded == d_pc \in {"returned", "raised"}

\* The loop is at an alias that has a handler, and no handler was found before.
AtFirstHandler ==
    /\ d_pc = "loop"
    /\ alias_index <= Len(event.name_aliases)
    /\ ResolvedHandler(event.name_aliases[alias_index]) # None
    /\ \A k \in HandledPositions : k >= alias_index

C7_NoInvocationBeforeDuplicate ==
    d_result.kind = "DuplicateKeyHandlers" => invocations = <<>>

\* C8: dispatch_key returns true if and only if a handler was invoked and its
\* result is not False; an event with no key name, or with no alias that has
\* a handler, returns false with no handler invoked and no error.
C8_HandledIffNotFalse ==
    DispatchEnded =>
        /\ (d_result = Returned(TRUE))
              <=> (invocations # <<>> /\ handler_result \notin {NoValue, "False"})
        /\ (event.name = "" \/ HandledPositions = {})
              => (d_result = Returned(FALSE) /\ invocations = <<>>)

\* C9: if the screen is not active when the first alias with a handler is
\* reached, dispatch_key returns false at once: no handler is invoked then or
\* later, no error is raised, and the remaining aliases are not scanned.
C9_InactiveScreenStops ==
    /\ [][(AtFirstHandler /\ ~is_active)
             => /\ d_pc' = "returned"
                /\ d_result' = Returned(FALSE)
                /\ invocations' = <<>>
                /\ alias_index' = alias_index
         ]_vars
    /\ [][~DispatchEnded]_vars

\* C9 witness: the screen is not active, two aliases have different handlers,
\* and dispatch_key has returned false without invoking either.
C9_Witness ==
    /\ d_pc = "returned"
    /\ d_result = Returned(FALSE)
    /\ ~is_active
    /\ event.name # ""
    /\ TwoDifferentHandlers
    /\ invocations = <<>>

(***************************************************************************)
(*                     Properties of OptionList                            *)
(***************************************************************************)
\* C10: highlighted is None or an index of the list, 0 <= highlighted <
\* option_count, in every reachable state.
C10_HighlightedInRange ==
    \/ highlighted = NoneInt
    \/ (0 <= highlighted[1] /\ highlighted[1] < Len(options))

\* C11: at no time does the option sequence hold two different options with
\* the same non-null id (also after an add_options that failed with
\* DuplicateID).
C11_UniqueIds ==
    \A i, j \in 1..Len(options) :
        (options[i].key # options[j].key /\ options[i].id # NoId)
            => options[i].id # options[j].id

\* C12: the option-to-index map is a bijection consistent with physical
\* order: it has exactly the options of the sequence as keys, and the option
\* stored at position i maps to index i.
C12_IndexBijection ==
    /\ DOMAIN option_to_index = {options[i].key : i \in 1..Len(options)}
    /\ \A i \in 1..Len(options) :
          /\ options[i].key \in DOMAIN option_to_index
          /\ option_to_index[options[i].key] = i - 1

\* C13: disable_option_at_index(i) on the highlighted option i moves
\* highlighted to the smallest enabled index greater than i, or to None when
\* no enabled option follows i; afterwards the highlight is not on a
\* disabled option.
C13_DisableHighlightedMovesForward ==
    [][\A index \in 0..MaxOptions :
          (/\ highlighted = Some(index)
           /\ index < Len(options)
           /\ disable_option_at_index(index)) =>
          LET later == {j \in EnabledIndices(options') : j > index}
          IN  /\ highlighted' = IF later = {} THEN NoneInt ELSE Some(MinOf(later))
              /\ highlighted' # NoneInt => ~At(options', highlighted'[1]).disabled
      ]_vars

\* C14: page_up never raises IndexError for its row offset and never leaves
\* the highlight on a greater index than before; page_down never raises
\* IndexError and never leaves it on a smaller one.
C14_PageMovesOneWay ==
    [][/\ action_page_up =>
            /\ raised' # "IndexError"
            /\ (highlighted # NoneInt /\ highlighted' # NoneInt)
                   => highlighted'[1] <= highlighted[1]
       /\ action_page_down =>
            /\ raised' # "IndexError"
            /\ (highlighted # NoneInt /\ highlighted' # NoneInt)
                   => highlighted'[1] >= highlighted[1]
      ]_vars

\* C15: add_options([A, None, B]) on an empty list, A and B different options
\* with different ids, gives a list of the two options with A's divider flag
\* set, and the line cache built next reports a virtual height of
\* rows(A) + rows(B), where rows(A) counts A's divider row (the placeholder has
\* no row of its own).
C15_PlaceholderAddsNoOption ==
    [][\A a, b \in NewOptions :
          (/\ a.key # b.key
           /\ a.id # b.id
           /\ options = <<>>
           /\ add_options(<<a, Separator, b>>)) =>
          /\ Len(options') = 2
          /\ options'[1].key = a.key /\ options'[1].divider
          /\ options'[2].key = b.key
          /\ update_lines(Widget').virtual_height = (a.height + 1) + b.height
      ]_vars

\* C16: in every reachable state, clear_options leaves the option sequence
\* and both maps empty and highlighted None, and any option can then be added
\* without DuplicateID.
C16_ClearOptionsEmpties ==
    LET after == cleared(Widget)
    IN  /\ Len(after.options) = 0
        /\ DOMAIN after.id_to_option = {}
        /\ DOMAIN after.option_to_index = {}
        /\ after.highlighted = NoneInt
        /\ \A option \in NewOptions : add_one(after, option).raised # "DuplicateID"

\* C17: no strip of the render cache carries an option index other than the
\* current index of its option, and no row of the line cache belongs to an
\* option index the list no longer has.
C17_CachesNeverStale ==
    /\ \A cache_key \in DOMAIN render_cache :
          cache_key[1] \in DOMAIN option_to_index =>
              render_cache[cache_key].index = option_to_index[cache_key[1]]
    /\ \A n \in 1..Len(line_cache.lines) : line_cache.lines[n][1] < Len(options)

(***************************************************************************)
(*                       Properties of Bindings                            *)
(***************************************************************************)
\* The binding of key in the last of the dicts that has the key.
LastDefinition(dicts, key) ==
    LET defining == {i \in 1..Len(dicts) : key \in DictKeys(dicts[i])}
    IN  DictGet(dicts[MaxOf(defining)], key)

\* C18: merge over an ordered sequence of tables raises nothing and returns a
\* table whose key set is the union of the key sets of the tables and where
\* every key maps to the binding of the last table that defines it; the
\* tables themselves are unchanged.
C18_MergeLastWins ==
    [][\A which \in MergeArgs : merge(which) =>
          LET dicts == [i \in 1..Len(which) |-> tables[which[i]]]
              result == b_result'.returned
          IN  /\ b_result'.raised = None
              /\ DictKeys(result) = UNION {DictKeys(dicts[i]) : i \in 1..Len(dicts)}
              /\ \A key \in DictKeys(result) :
                    DictGet(result, key) = LastDefinition(dicts, key)
              /\ tables' = tables
      ]_vars

\* Two dicts are equal when they have the same keys with the same values.
DictEq(d1, d2) ==
    /\ DictKeys(d1) = DictKeys(d2)
    /\ \A key \in DictKeys(d1) : DictGet(d1, key) = DictGet(d2, key)

\* C19: the table after bind(keys, action, ...) equals the table constructed
\* from the previous entries followed by Binding(keys, action, ...), and when
\* that construction raises, bind raises as well.
C19_BindAsConstruction ==
    [][\A t \in 1..MaxTables, keys \in BindKeyStrings, flags \in Flags :
          bind(t, keys, flags) =>
          LET previous == [i \in 1..Len(tables[t]) |-> BindingObject(tables[t][i])]
              binding == Binding(keys, flags.action, flags.description, flags.show,
                                 flags.key_display, flags.universal)
              built == new_keys(Append(previous, BindingObject(binding)))
          IN  /\ built.raised # None => b_result'.raised # None
              /\ built.raised = None => DictEq(tables'[t], built.keys)
      ]_vars

\* A keys str with a comma-separated key that is not alphanumeric: the str
\* is empty, starts or ends with a comma, has two commas in a row, or has a
\* character that is neither alphanumeric nor a comma.
HasInvalidKey(str) ==
    \/ str = <<>>
    \/ Head(str) = ","
    \/ Last(str) = ","
    \/ \E i \in 1..Len(str) - 1 : str[i] = "," /\ str[i + 1] = ","
    \/ \E i \in 1..Len(str) : str[i] \notin AlnumChars \cup {","}

\* An argument the constructor must reject: one of its elements is a tuple
\* that is not a 3-tuple, or has an invalid key.
Rejected(bindings) ==
    \E i \in 1..Len(bindings) :
        IF bindings[i].is_tuple
        THEN Len(bindings[i].fields) # 3 \/ HasInvalidKey(bindings[i].fields[1])
        ELSE HasInvalidKey(bindings[i].binding.key)

\* C20: Bindings(bindings) on an argument with a key that is not alphanumeric
\* (such as "!", an empty key or a key with a space), or with a tuple that is
\* not a 3-tuple, raises BindingError and no table comes into being.
C20_InvalidConstructionFails ==
    (b_result.op = "Bindings" /\ Rejected(bindings_arg)) =>
        (b_result.raised = "BindingError" /\ tables = <<>>)

\* C20 witness: the constructor was given a valid Binding followed by one
\* whose second key is "!", and raised BindingError without making a table.
C20_Witness ==
    /\ b_result.op = "Bindings"
    /\ Len(bindings_arg) = 2
    /\ ~bindings_arg[1].is_tuple /\ bindings_arg[1].binding.key = <<"a">>
    /\ ~bindings_arg[2].is_tuple /\ bindings_arg[2].binding.key = <<"a", ",", "!">>
    /\ b_result.raised = "BindingError"
    /\ tables = <<>>

\* The keys of a comma-separated list: the longest stretches without a comma.
Pieces(str) ==
    {SubSeq(str, i, j) : <<i, j>> \in
        {<<i, j>> \in (1..Len(str) + 1) \X (0..Len(str)) :
            /\ j >= i - 1
            /\ \A n \in i..j : str[n] # ","
            /\ i = 1 \/ str[i - 1] = ","
            /\ j = Len(str) \/ str[j + 1] = ","}}

\* The Binding an element of the constructor argument stands for.
Original(object) ==
    IF object.is_tuple
    THEN Binding(object.fields[1], object.fields[2], object.fields[3], TRUE, None, FALSE)
    ELSE object.binding

\* C21: on a table constructed from bindings, get_key(key) returns, for a key
\* that is one of the comma-separated keys of some element, a Binding with
\* that key and the action, description, show, key_display and universal of
\* the last element that lists the key; for any other key it raises
\* NoBinding.
C21_ExpandedBindings ==
    [][\A key \in SingleKeys : get_key(1, key) =>
          LET listing == {i \in 1..Len(bindings_arg) :
                             key \in Pieces(Original(bindings_arg[i]).key)}
          IN  IF listing = {}
              THEN b_result'.raised = "NoBinding" /\ b_result'.returned = <<>>
              ELSE LET original == Original(bindings_arg[MaxOf(listing)])
                   IN  /\ b_result'.raised = None
                       /\ b_result'.returned =
                              <<Binding(key, original.action, original.description,
                                        original.show, original.key_display,
                                        original.universal)>>
      ]_vars

\* C21 witness: the table was constructed from a Binding for "a,b" and a
\* later Binding for "b,a" with other flags; get_key("a") has returned a
\* Binding with key "a" and the flags of the later one.
C21_Witness ==
    /\ Len(bindings_arg) = 2
    /\ ~bindings_arg[1].is_tuple /\ bindings_arg[1].binding.key = <<"a", ",", "b">>
    /\ bindings_arg[1].binding.action = "x"
    /\ ~bindings_arg[2].is_tuple /\ bindings_arg[2].binding.key = <<"b", ",", "a">>
    /\ bindings_arg[2].binding.action = "y"
    /\ b_result.op = "get_key"
    /\ b_result.returned = <<Binding(<<"a">>, "y", "d", FALSE, "K", TRUE)>>

(***************************************************************************)
(*                  More properties of EditHistory                         *)
(***************************************************************************)
\* C22: after reset both stacks are empty, the character counter is 0, the
\* force flag and the previous-edit-was-replacement flag are false and the
\* last-edit time is the current time.
C22_ResetRestoresInitialState ==
    [][reset =>
          /\ undo_stack' = <<>>
          /\ redo_stack' = <<>>
          /\ character_count' = 0
          /\ force_end_batch_flag' = FALSE
          /\ previously_replaced' = FALSE
          /\ last_edit_time' = monotonic'
      ]_vars

\* C23: record_edit on an edit that has not been executed raises
\* HistoryException and changes neither stack, nor the character counter, the
\* last-edit time, the force flag or the previous-replacement flag.
C23_UnexecutedEditRejected ==
    [][record_edit(NotExecuted) =>
          /\ last_call'.op = "record_edit"
          /\ last_call'.kind = "HistoryException"
          /\ UNCHANGED <<undo_stack, redo_stack, character_count, last_edit_time,
                         force_end_batch_flag, previously_replaced>>
      ]_vars

\* C23 witness: record_edit has raised HistoryException while a batch waits
\* on the redo stack and one on the undo stack.
C23_Witness ==
    /\ last_call.op = "record_edit"
    /\ last_call.kind = "HistoryException"
    /\ redo_stack # <<>>
    /\ undo_stack # <<>>

(***************************************************************************)
(*                  More properties of OptionList                          *)
(***************************************************************************)
\* C24: action_select raises nothing and changes nothing of the list; it
\* posts one OptionSelected with the highlighted option, its id and its
\* index when there is a highlight and the highlighted option is enabled,
\* and posts nothing otherwise.
C24_SelectPostsOnce ==
    [][action_select =>
          /\ raised' = None
          /\ UNCHANGED <<options, id_to_option, option_to_index, highlighted,
                         line_cache, render_cache, is_mounted, virtual_height>>
          /\ IF /\ highlighted # NoneInt
                /\ InRange(options, highlighted[1])
                /\ ~At(options, highlighted[1]).disabled
             THEN posted' = <<OptionMessage("OptionSelected",
                                            At(options, highlighted[1]),
                                            highlighted[1])>>
             ELSE posted' = <<>>
      ]_vars

(***************************************************************************)
(*                   More properties of dispatch_key                       *)
(***************************************************************************)
\* The handler the claim C25 names for an alias: key_<alias> when the node has
\* it, _key_<alias> only when it has no key_<alias>.
PublicThenPrivate(alias) ==
    IF node.public[alias] # None THEN node.public[alias] ELSE node.private[alias]

\* C25: an alias whose key_<alias> and _key_<alias> both exist counts as one
\* handler, the public one.  Every step of the loop at an alias invokes at
\* most one handler, and that is key_<alias> when it exists and _key_<alias>
\* only when it does not; a DuplicateKeyHandlers error is raised only against
\* a handler invoked for an earlier alias and names the public handler of the
\* current alias as the second one; an event with a single alias never ends
\* with DuplicateKeyHandlers.
C25_PublicHandlerWins ==
    /\ []((d_result.kind = "DuplicateKeyHandlers")
            => /\ Len(event.name_aliases) >= 2
               /\ alias_index >= 2)
    /\ [][(d_pc = "loop" /\ alias_index <= Len(event.name_aliases))
             => LET alias == event.name_aliases[alias_index]
                IN  /\ invocations' \in
                          {invocations,
                           Append(invocations, PublicThenPrivate(alias))}
                    /\ invocations' # invocations
                          => PublicThenPrivate(alias) # None
                    /\ d_result'.kind = "DuplicateKeyHandlers"
                          => /\ invoked_method # None
                             /\ d_result'.first_handler = invoked_method
                             /\ d_result'.second_handler = PublicThenPrivate(alias)
         ]_vars

\* C25 witness: the only alias is tab, key_tab and _key_tab both exist and
\* differ, and dispatch_key returned after invoking key_tab alone.
C25_Witness ==
    /\ event.name_aliases = <<"tab">>
    /\ node.public["tab"] = "handler_a"
    /\ node.private["tab"] = "handler_b"
    /\ d_pc = "returned"
    /\ invocations = <<"handler_a">>
    /\ d_result.kind = "return"

(***************************************************************************)
(*                 Properties of the line cache of OptionList              *)
(***************************************************************************)
\* The number of rows of the option at index: its height, and one for a divider.
RowsOf(opts, index) ==
    At(opts, index).height + (IF At(opts, index).divider THEN 1 ELSE 0)

\* The number of rows of the options before index.
RECURSIVE RowsBefore(_, _)
RowsBefore(opts, index) ==
    IF index = 0 THEN 0 ELSE RowsBefore(opts, index - 1) + RowsOf(opts, index - 1)

\* The widget after a geometry query (_lines, _heights, _index_to_line).
Queried == update_lines(Widget)

\* C26: after a geometry query, for every option count including 0 and 1,
\* the line cache holds one entry per visual row: option i contributes the
\* RowsOf(i) consecutive entries (i, 0), (i, 1), ... in list order,
\* heights[i] is that number, index_to_line[i] is the position of its first
\* entry, every option index appears, and the virtual height is not negative.
C26_LineCachePerRow ==
    LET opts == Queried.options
        cache == Queried.line_cache
        indices == 0..Len(opts) - 1
    IN  /\ Len(cache.lines) = RowsBefore(opts, Len(opts))
        /\ DOMAIN cache.heights = indices
        /\ DOMAIN cache.index_to_line = indices
        /\ \A i \in indices :
              /\ cache.heights[i] = RowsOf(opts, i)
              /\ cache.index_to_line[i] = RowsBefore(opts, i)
              /\ \A n \in 0..RowsOf(opts, i) - 1 :
                    At(cache.lines, RowsBefore(opts, i) + n) = <<i, n>>
        /\ Queried.virtual_height >= 0

\* The highest option index the line cache has rows for.
Materialized == Last(line_cache.lines)[1]

\* C27: a geometry query on a line cache that was built before options were
\* appended only appends: the entries the cache had are its first entries
\* still, every added entry belongs to an option index above the highest one
\* already materialized, and heights and index_to_line of the options the
\* cache had keep their values.
C27_ExtensionAppendsOnly ==
    line_cache.lines # <<>> =>
        LET before == line_cache
            after == Queried.line_cache
        IN  /\ Len(after.lines) >= Len(before.lines)
            /\ SubSeq(after.lines, 1, Len(before.lines)) = before.lines
            /\ \A n \in Len(before.lines) + 1..Len(after.lines) :
                  after.lines[n][1] > Materialized
            /\ \A i \in DOMAIN before.heights :
                  i \in DOMAIN after.heights /\ after.heights[i] = before.heights[i]
            /\ \A i \in DOMAIN before.index_to_line :
                  /\ i \in DOMAIN after.index_to_line
                  /\ after.index_to_line[i] = before.index_to_line[i]

(***************************************************************************)
(*                 Properties of the batches of EditHistory                *)
(***************************************************************************)
\* The inserted plus replaced characters of the edits of a batch.
RECURSIVE BatchCharacters(_)
BatchCharacters(batch) ==
    IF batch = <<>> THEN 0
    ELSE count_edit_characters(Head(batch)) + BatchCharacters(Tail(batch))

\* Every batch of the stack that holds more than one edit has at most
\* checkpoint_max_characters characters.
CoalescedWithinLimit(stack) ==
    \A i \in 1..Len(stack) :
        Len(stack[i]) > 1 => BatchCharacters(stack[i]) <= checkpoint_max_characters

\* The character counter is the total of the top batch of the undo stack.
CounterIsTopBatch ==
    undo_stack # <<>> => character_count = BatchCharacters(Last(undo_stack))

\* C28: in every state reachable by record_edit, pop_undo, pop_redo,
\* force_end_batch and reset, each batch that holds more than one edit has at
\* most checkpoint_max_characters inserted plus replaced characters, and the
\* character counter equals the total characters of the top batch of the
\* undo stack whenever that stack is not empty.
C28_BatchesWithinLimit ==
    /\ CoalescedWithinLimit(undo_stack)
    /\ CoalescedWithinLimit(redo_stack)
    /\ CounterIsTopBatch

\* C29: a batch is extended only while it is the most recently created one.
\* The batches pop_undo took from above the top batch wait on the redo stack
\* until the next edit is recorded, so the top batch has had another batch
\* above it exactly when the redo stack is not empty: a record_edit in such a
\* state, and so every record_edit that follows a pop_undo which returned a
\* batch, starts a batch of its own and leaves the batches below as they were.
C29_OnlyNewestBatchExtended ==
    [][\A edit \in ExecutedEdits :
          (record_edit_ok(edit) /\ redo_stack # <<>>)
              => undo_stack' = Append(undo_stack, <<edit>>)
      ]_vars

(***************************************************************************)
(*                     More properties of Bindings                         *)
(***************************************************************************)
\* Every entry of the dict is stored under an alphanumeric key, and under the
\* key of its Binding only (a dict is the sequence of its values, each one
\* the entry of its own key field).
KeysStoredAlphanumeric(dict) ==
    /\ \A i \in 1..Len(dict) : isalnum(dict[i].key)
    /\ \A i, j \in 1..Len(dict) : dict[i].key = dict[j].key => i = j

\* C30: in every state reachable by construction, bind and merge, every key
\* stored in a binding table (a constructed one that bind may have written
\* to, or the table merge returned) is alphanumeric, and each stored entry k
\* maps to a Binding whose key field is k.
C30_StoredKeysAlphanumeric ==
    /\ \A t \in 1..Len(tables) : KeysStoredAlphanumeric(tables[t])
    /\ (b_result.op = "merge" /\ b_result.raised = None)
          => KeysStoredAlphanumeric(b_result.returned)

(***************************************************************************)
(*              Properties of the resolution to one handler                *)
(***************************************************************************)
\* At least two aliases of the event have a handler, and all of them the same.
SameHandlerTwice ==
    /\ Cardinality(HandledPositions) >= 2
    /\ \A k, l \in HandledPositions :
          PublicThenPrivate(event.name_aliases[k])
              = PublicThenPrivate(event.name_aliases[l])

\* C31: DuplicateKeyHandlers is raised only for a second, different handler.
\* The error never names the same handler twice, and a key press whose
\* aliases with a handler all resolve to the same handler ends without that
\* error and with no more than one invocation of the handler.
C31_SameHandlerIsNoDuplicate ==
    /\ d_result.kind = "DuplicateKeyHandlers"
          => d_result.first_handler # d_result.second_handler
    /\ (DispatchEnded /\ event.name # "" /\ SameHandlerTwice)
          => /\ d_result.kind # "DuplicateKeyHandlers"
             /\ Len(invocations) <= 1

\* C32: a key press resolves to a single handler.  Within one dispatch_key
\* call at most one handler is ever invoked, whatever the aliases, the
\* handlers, the return value, the changes of the screen during the await and
\* the way the call ends; while an invocation is awaited it is the only one:
\* no handler was invoked and finished before it.
C32_AtMostOneInvocation ==
    /\ Len(invocations) <= 1
    /\ d_pc = "await" => (Len(invocations) = 1 /\ invoked_method = None)
    /\ invoked_method # None => invocations = <<invoked_method>>

\* C32 witness: three aliases have handlers, the first was invoked, the screen
\* stopped being active during the await, and the call ended with an error
\* after that single invocation.
C32_Witness ==
    /\ Cardinality(HandledPositions) = 3
    /\ d_pc = "raised"
    /\ d_result.kind = "DuplicateKeyHandlers"
    /\ ~is_active
    /\ Len(invocations) = 1

(***************************************************************************)
(*                 Properties of failing and enabling calls                *)
(***************************************************************************)
\* The arguments add_options accepts in the current state.
AddableItems ==
    {items \in ItemLists :
        /\ Len(options) + NumberOfOptions(items) <= MaxOptions
        /\ \A k \in 1..Len(items) :
              ~items[k].separator => Known(Widget, items[k].key)}

\* The number of items add_options went through without an error.
AddedBeforeFailure(w, items) ==
    MaxOf({k \in 0..Len(items) : add_all(w, SubSeq(items, 1, k)).raised = None})

\* The id map maps exactly the ids of the options of the list, each to the
\* option of the list that carries it.
IdMapExact(w) ==
    /\ DOMAIN w.id_to_option =
          {w.options[i].id : i \in 1..Len(w.options)} \ {NoId}
    /\ \A i \in 1..Len(w.options) :
          w.options[i].id # NoId
              => w.id_to_option[w.options[i].id] = w.options[i].key

\* C33: an add_options call that fails with DuplicateID leaves the list, the
\* option count and both maps as the items before the offending option made
\* them, with nothing of the offending option in them, and the id map still
\* maps exactly the ids of the options of the list to those options.
C33_FailedAddLeavesNoTrace ==
    \A items \in AddableItems :
        LET after == add_all(Widget, items)
            expected ==
                add_all(Widget, SubSeq(items, 1, AddedBeforeFailure(Widget, items)))
        IN  after.raised = "DuplicateID"
                => /\ after.options = expected.options
                   /\ Len(after.options) = Len(expected.options)
                   /\ after.option_to_index = expected.option_to_index
                   /\ after.id_to_option = expected.id_to_option
                   /\ IdMapExact(Widget) => IdMapExact(after)

\* The options with the disabled flag of the object named key cleared, and
\* nothing else changed.
Enabled(opts, key) ==
    [i \in 1..Len(opts) |->
        IF opts[i].key = key THEN [opts[i] EXCEPT !.disabled = FALSE] ELSE opts[i]]

\* C34: enable_option and enable_option_at_index, on an option the list has,
\* change only the disabled flag of that option: highlighted, the option
\* sequence and both maps are as before, also when the target is the
\* highlighted option.
C34_EnableChangesOnlyTheFlag ==
    [][/\ \A index \in 0..MaxOptions :
             (index < Len(options) /\ enable_option_at_index(index))
                 => /\ highlighted' = highlighted
                    /\ options' = Enabled(options, At(options, index).key)
                    /\ UNCHANGED <<id_to_option, option_to_index>>
       /\ \A option_id \in OptionIds :
             (/\ get_option_index(Widget, option_id).raised = None
              /\ InRange(options, get_option_index(Widget, option_id).index)
              /\ enable_option(option_id))
                 => /\ highlighted' = highlighted
                    /\ options' = Enabled(options, id_to_option[option_id])
                    /\ UNCHANGED <<id_to_option, option_to_index>>
      ]_vars

(***************************************************************************)
(*                  Undo and redo as inverse operations                    *)
(***************************************************************************)
Reversed(stack) == [i \in 1..Len(stack) |-> stack[Len(stack) + 1 - i]]

\* The batches of the history in the order they were made: the undo stack,
\* then the undone batches, the one undone last first.
AllBatches == undo_stack \o Reversed(redo_stack)

\* C35: undo and redo are inverse on the stacks and lose nothing.  pop_undo
\* and pop_redo each leave the undo stack followed by the reversed redo stack
\* the same sequence of batches; pop_undo on a non-empty undo stack moves the
\* boundary between the two stacks down by one batch and pop_redo on a
\* non-empty redo stack moves it up by one, so either one followed by the
\* other gives back both stacks, batch for batch and in the same order.
C35_UndoRedoInverse ==
    [][/\ pop_undo =>
            /\ AllBatches' = AllBatches
            /\ undo_stack # <<>> => Len(undo_stack') = Len(undo_stack) - 1
            /\ undo_stack = <<>> => UNCHANGED <<undo_stack, redo_stack>>
       /\ pop_redo =>
            /\ AllBatches' = AllBatches
            /\ redo_stack # <<>> => Len(undo_stack') = Len(undo_stack) + 1
            /\ redo_stack = <<>> => UNCHANGED <<undo_stack, redo_stack>>
      ]_vars

\* C35 witness: batches were undone and one of them was redone, with two
\* different batches on the undo stack and another still on the redo stack.
C35_Witness ==
    /\ last_call.op = "pop_redo"
    /\ last_call.kind = "batch"
    /\ Len(undo_stack) >= 2
    /\ undo_stack[1] # undo_stack[2]
    /\ redo_stack # <<>>
    /\ Last(undo_stack) = last_call.batch

====
